---- MODULE Spec2Model ----
(***************************************************************************)
(* Model of the e-mail outreach automation (main.py, zoho_crm.py,          *)
(* ai_processor.py, email_handler.py).                                     *)
(*                                                                         *)
(*   SpecRetry : one activation of retry_on_failure.wrapper                *)
(*   SpecCRM   : calls of the ZohoCRMService methods against the CRM       *)
(*   Spec      : the per-mail body of process_monitored_emails             *)
(*   SpecAI    : AssistantTester.ai_assistant and the assistant run        *)
(*   SpecMonitor : IMAPMonitor.monitor_emails over a mailbox               *)
(*   SpecQueue : process_email_queue over repeated triggers                *)
(*   SpecFollowup : process_followup                                       *)
(*   SpecSched : schedule_email_processing and the scheduler's jobs        *)
(*   SpecRace  : an inbound run and a follow-up run on the same lead       *)
(*                                                                         *)
(* Strings are sequences of tokens: "STATUS:", " " and "\n" stand for the  *)
(* literal text, every other token is a word without blank or newline.     *)
(***************************************************************************)
EXTENDS Integers, Sequences, FiniteSets, TLC

VARIABLES w, access_token, server_token, crm, call, pm, outbox, log,
          ai, imap, pq, fu, sched

\* the state of the assistant call, the mailbox reader, the two HTTP
\* endpoints and the scheduler
aux == <<ai, imap, pq, fu, sched>>

vars == <<w, access_token, server_token, crm, call, pm, outbox, log, aux>>

\* ------------------------------------------------------------------------
\* Bounds of the model
\* ------------------------------------------------------------------------
MaxRetriesBound == 3
MaxDelay == 3
MaxBackoff == 3
MaxRecords == 2
MaxCalls == 1
MaxLen == 4
MaxMsgLen == 1
MaxMessages == 2
MaxPolls == 3
MaxMails == 3
MaxTriggers == 2

\* ------------------------------------------------------------------------
\* Program constants
\* ------------------------------------------------------------------------
DecoratorMaxRetries == 3
DecoratorRetryDelay == 2
DecoratorBackoffFactor == 2

NoVal == [type |-> "None"]

\* no assistant call, mailbox session, endpoint run or scheduler in the state
AuxIdle ==
    /\ ai = NoVal
    /\ imap = NoVal
    /\ pq = NoVal
    /\ fu = NoVal
    /\ sched = NoVal

\* ------------------------------------------------------------------------
\* retry_on_failure (zoho_crm.py:7-37)
\* ------------------------------------------------------------------------

\* the state of wrapper() on entry: retry_count = 0, current_delay = retry_delay
WrapperInit(mr, rd, bf) ==
    [max_retries |-> mr, retry_delay |-> rd, backoff_factor |-> bf,
     retry_count |-> 0, current_delay |-> rd,
     pc |-> "running", trace |-> <<>>, ret |-> NoVal, exc |-> NoVal]

WrapperIdle ==
    [max_retries |-> 0, retry_delay |-> 0, backoff_factor |-> 0,
     retry_count |-> 0, current_delay |-> 0,
     pc |-> "idle", trace |-> <<>>, ret |-> NoVal, exc |-> NoVal]

CallEvent(kind) == [ev |-> "call", kind |-> kind, delay |-> 0]
SleepEvent(d) == [ev |-> "sleep", kind |-> "", delay |-> d]

GiveUpLate(retry_count, max_retries) == retry_count > max_retries

\* `if retry_count >= max_retries: raise`
GiveUp(retry_count, max_retries) == retry_count >= max_retries

NextDelayConstant(current_delay, backoff_factor) == current_delay

\* `current_delay *= backoff_factor`
NextDelay(current_delay, backoff_factor) == current_delay * backoff_factor

\* One invocation of func by wrapper(), r its outcome:
\* r.kind = "return" (r.val returned), "RequestException" or "Exception"
\* (r.val raised).
WrapperAttempt(a, r) ==
    LET called == [a EXCEPT !.trace = Append(@, CallEvent(r.kind))]
    IN  IF a.retry_count < a.max_retries
        THEN IF r.kind = "return"
             THEN [called EXCEPT !.pc = "returned", !.ret = r.val]
             ELSE IF r.kind = "RequestException"
             THEN LET rc == a.retry_count + 1
                  IN  IF GiveUp(rc, a.max_retries)
                      THEN [called EXCEPT !.retry_count = rc,
                                          !.pc = "raised", !.exc = r.val]
                      ELSE [called EXCEPT
                              !.retry_count = rc,
                              !.trace = Append(@, SleepEvent(a.current_delay)),
                              !.current_delay =
                                  NextDelay(a.current_delay, a.backoff_factor)]
             ELSE [called EXCEPT !.pc = "raised", !.exc = r.val]
        ELSE \* the trailing `return func(*args, **kwargs)`
             IF r.kind = "return"
             THEN [called EXCEPT !.pc = "returned", !.ret = r.val]
             ELSE [called EXCEPT !.pc = "raised", !.exc = r.val]

\* the events of a trace that are invocations of func / sleeps
Calls(trace) == SelectSeq(trace, LAMBDA e : e.ev = "call")
Sleeps(trace) == SelectSeq(trace, LAMBDA e : e.ev = "sleep")

\* ------------------------------------------------------------------------
\* SpecRetry: a function decorated with retry_on_failure(mr, rd, bf)
\* ------------------------------------------------------------------------
ResultKinds == {"return", "RequestException", "Exception"}

\* the outcome of the n-th invocation of the wrapped function
FuncResult(kind, n) ==
    [kind |-> kind,
     val |-> [type |-> IF kind = "return" THEN "value" ELSE kind, id |-> n]]

RetryInit ==
    /\ \E mr \in 1..MaxRetriesBound, rd \in 1..MaxDelay, bf \in 2..MaxBackoff :
          w = WrapperInit(mr, rd, bf)
    /\ access_token = 0
    /\ server_token = 0
    /\ crm = <<>>
    /\ call = NoVal
    /\ pm = NoVal
    /\ outbox = <<>>
    /\ log = <<>>
    /\ AuxIdle

RetryAttempt ==
    /\ w.pc = "running"
    /\ \E kind \in ResultKinds :
          w' = WrapperAttempt(w, FuncResult(kind, Len(Calls(w.trace)) + 1))
    /\ UNCHANGED aux
    /\ UNCHANGED <<access_token, server_token, crm, call, pm, outbox, log>>

RetryNext == RetryAttempt

SpecRetry == RetryInit /\ [][RetryNext]_vars

RECURSIVE Pow(_, _)
Pow(b, e) == IF e = 0 THEN 1 ELSE b * Pow(b, e - 1)

AllRequestFailures(calls) ==
    \A i \in 1..Len(calls) : calls[i].kind = "RequestException"

\* C1: k < max_retries retryable failures followed by a success return the
\* success value after exactly k sleeps with strictly increasing delays;
\* max_retries retryable failures propagate the last error, and no sleep
\* follows the final failure.
C1_RetryContract ==
    LET calls == Calls(w.trace)
        sleeps == Sleeps(w.trace)
        n == Len(calls)
    IN  /\ (w.pc = "returned" /\ AllRequestFailures(SubSeq(calls, 1, n - 1)))
            => /\ n - 1 < w.max_retries
               /\ w.ret = [type |-> "value", id |-> n]
               /\ Len(sleeps) = n - 1
               /\ \A i \in 1..(Len(sleeps) - 1) :
                     sleeps[i].delay < sleeps[i + 1].delay
        /\ (w.pc = "raised" /\ AllRequestFailures(calls))
            => /\ n = w.max_retries
               /\ w.exc = [type |-> "RequestException", id |-> n]
               /\ w.trace[Len(w.trace)].ev = "call"
               /\ Len(sleeps) = n - 1

C1_Witness ==
    /\ w.pc = "returned"
    /\ Len(Sleeps(w.trace)) = 2
    /\ w.max_retries = 3

\* C2: the wait before attempt n+1 is retry_delay * backoff_factor^(n-1),
\* and func is invoked at most max_retries times whatever the failures.
C2_BackoffAndAttemptCap ==
    LET calls == Calls(w.trace)
        sleeps == Sleeps(w.trace)
    IN  /\ Len(calls) <= w.max_retries
        /\ \A n \in 1..Len(sleeps) :
              /\ sleeps[n].delay = w.retry_delay * Pow(w.backoff_factor, n - 1)
              /\ w.trace[2 * n] = sleeps[n]
              /\ w.trace[2 * n - 1].ev = "call"
        /\ \A i \in 1..Len(w.trace) :
              (w.trace[i].ev = "call" /\ i > 1) => w.trace[i - 1].ev = "sleep"

C2_Witness ==
    /\ w.pc = "raised"
    /\ Len(Calls(w.trace)) = 3
    /\ Len(Sleeps(w.trace)) = 2
    /\ w.backoff_factor = 3

\* ------------------------------------------------------------------------
\* ZohoCRMService (zoho_crm.py:39-265)
\* ------------------------------------------------------------------------
Emails == {<<"Developmentexpert121@gmail.com">>, <<"lead@example.com">>}

\* Optional integers: None is <<>>, the integer n is <<n>>.
NoneInt == <<>>
SomeInt(n) == <<n>>

\* dict.get(key, default) on a JSON object
DictGet(d, key, default) == IF key \in DOMAIN d THEN d[key] ELSE default

\* A record of the Probenehmer module as the search endpoint returns it.
CRMRecords(id) ==
    {[id |-> id, Email |-> e, make_com_Status |-> <<>>, mailSent |-> <<>>] :
        e \in Emails}
    \cup
    {[id |-> id, Email |-> e, make_com_Status |-> <<>>, mailSent |-> <<>>,
      Followup_Count |-> fc] : e \in Emails, fc \in {NoneInt, SomeInt(1)}}

CRMStates ==
    UNION {{c \in [1..n -> UNION {CRMRecords(i) : i \in 1..n}] :
               \A i \in 1..n : c[i].id = i} : n \in 0..MaxRecords}

\* the methods carrying @retry_on_failure(max_retries=3, retry_delay=2,
\* backoff_factor=2); get_entries_for_followup, which main.py never calls,
\* is left out
Decorated ==
    {"_get_access_token", "get_entries_for_email_processing",
     "update_entry_status", "update_status", "fetch_zoho_record_by_email"}

\* the methods defined without the decorator
Undecorated == {"update_mailsent_status", "update_followup"}

\* HTTP exchange of one request: a transport failure, or a response
\* (has_token: the JSON of a token response carries 'access_token')
HttpOutcomes(op, token_ok) ==
    {[transport |-> "ConnectionError", status_code |-> 0, has_token |-> FALSE]}
    \cup
    {[transport |-> "ok", status_code |-> s, has_token |-> h] :
        s \in (IF token_ok THEN {200, 500} ELSE {401, 500}),
        h \in (IF op = "_get_access_token" THEN BOOLEAN ELSE {FALSE})}

\* response.raise_for_status()
RaisesForStatus(http) == http.transport = "ok" /\ http.status_code >= 400

RequestError(http) ==
    [kind |-> "RequestException",
     val |-> [type |-> IF http.transport = "ok" THEN "HTTPError"
                       ELSE http.transport,
              status_code |-> http.status_code]]

Returns(v) == [kind |-> "return", val |-> v]

\* the ids of the records matching (Email:equals:email), and the orders in
\* which the search endpoint may list them
Matches(c, email) == {i \in DOMAIN c : c[i].Email = email}

SearchData(c, email) ==
    LET m == Matches(c, email)
        n == Cardinality(m)
    IN  {[k \in 1..n |-> c[s[k]]] :
            s \in {t \in [1..n -> m] : \A a, b \in 1..n : a # b => t[a] # t[b]}}

\* _get_access_token: the body under the decorator
GetAccessTokenBody(http, issued) ==
    IF http.transport # "ok" \/ RaisesForStatus(http)
    THEN RequestError(http)
    ELSE IF ~http.has_token
    THEN [kind |-> "RequestException",
          val |-> [type |-> "RequestException", status_code |-> 200]]
    ELSE Returns([type |-> "token", token |-> issued])

\* _refresh_token_if_needed: the token the service holds after the call,
\* given a freshly fetched one.  No method of the service calls it.
RefreshTokenIfNeeded(status_code, held, fetched) ==
    IF status_code = 401 THEN fetched ELSE held

\* get_entries_for_email_processing: the body under the decorator
GetEntriesBody(http, data) ==
    IF http.transport # "ok" \/ RaisesForStatus(http)
    THEN RequestError(http)
    ELSE Returns([type |-> "list", data |-> data])

\* the tuple fetch_zoho_record_by_email builds from data["data"][0]
FirstRecord(data) ==
    [type |-> "tuple", record_id |-> data[1].id,
     followup_count |-> DictGet(data[1], "Followup_Count", SomeInt(0))]

FirstMatchOnlyIfUnique(data) ==
    IF Len(data) = 1 THEN Returns(FirstRecord(data)) ELSE Returns(NoVal)

FirstMatchUnchecked(data) ==
    IF Len(data) > 0
    THEN Returns(FirstRecord(data))
    ELSE [kind |-> "Exception",
          val |-> [type |-> "IndexError", status_code |-> 200]]

\* `if data.get("data"): ... data["data"][0] ... else: return None`
FirstMatch(data) ==
    IF Len(data) > 0 THEN Returns(FirstRecord(data)) ELSE Returns(NoVal)

\* `except requests.exceptions.RequestException: return None`
SwallowRequestError(http) == Returns(NoVal)

\* fetch_zoho_record_by_email: the body under the decorator
FetchRecordBody(http, data) ==
    IF http.transport # "ok" \/ RaisesForStatus(http)
    THEN SwallowRequestError(http)
    ELSE FirstMatch(data)

\* update_entry_status, update_status, update_mailsent_status,
\* update_followup: PATCH of one field, the body of each
PatchBody(http) ==
    IF http.transport # "ok" \/ RaisesForStatus(http)
    THEN RequestError(http)
    ELSE Returns([type |-> "json"])

\* the field each update method names in its payload
PatchField(op) ==
    CASE op = "update_entry_status" -> "make_com_Status"
      [] op = "update_status" -> "make_com_Status"
      [] op = "update_mailsent_status" -> "mailSent"
      [] op = "update_followup" -> "Followup_Count"

\* the CRM after a PATCH the endpoint answered with 200
Patched(c, entry_id, field, value) ==
    [c EXCEPT ![entry_id] =
        [k \in DOMAIN c[entry_id] \cup {field} |->
            IF k = field THEN value ELSE c[entry_id][k]]]

PatchOps ==
    {"update_entry_status", "update_status", "update_mailsent_status",
     "update_followup"}

\* the arguments the callers in main.py pass to each method
CallArgs(op, c) ==
    CASE op = "fetch_zoho_record_by_email" ->
            {[email |-> e, entry_id |-> 0, value |-> <<>>] : e \in Emails}
      [] op = "get_entries_for_email_processing" ->
            {[email |-> <<"Developmentexpert121@gmail.com">>, entry_id |-> 0,
              value |-> <<>>]}
      [] op \in {"update_entry_status", "update_status"} ->
            {[email |-> <<>>, entry_id |-> i, value |-> <<"Uninteressiert">>] :
                i \in DOMAIN c}
      [] op = "update_mailsent_status" ->
            {[email |-> <<>>, entry_id |-> i,
              value |-> <<"2026-01-01T09:00:00+03:00">>] : i \in DOMAIN c}
      [] op = "update_followup" ->
            {[email |-> <<>>, entry_id |-> i, value |-> SomeInt(2)] :
                i \in DOMAIN c}

\* One execution of the body of method op: its outcome and the CRM after it
Invoke(op, args, http, data, c, issued) ==
    CASE op = "_get_access_token" ->
            [r |-> GetAccessTokenBody(http, issued), crm |-> c]
      [] op = "get_entries_for_email_processing" ->
            [r |-> GetEntriesBody(http, data), crm |-> c]
      [] op = "fetch_zoho_record_by_email" ->
            [r |-> FetchRecordBody(http, data), crm |-> c]
      [] op \in PatchOps ->
            [r |-> PatchBody(http),
             crm |-> IF PatchBody(http).kind = "return"
                     THEN Patched(c, args.entry_id, PatchField(op), args.value)
                     ELSE c]

NoArgs == [email |-> <<>>, entry_id |-> 0, value |-> <<>>]

CallIdle == [op |-> "", args |-> NoArgs, pc |-> "idle", attempts |-> <<>>,
             ret |-> NoVal, exc |-> NoVal, n |-> 0]

\* what one request of a call sent and received
Attempt(op, token, http, data) ==
    [token |-> token, transport |-> http.transport,
     status_code |-> http.status_code,
     failed |-> \/ http.transport # "ok"
                \/ RaisesForStatus(http)
                \/ (op = "_get_access_token" /\ ~http.has_token),
     listed |-> IF http.transport = "ok" /\ ~RaisesForStatus(http)
                THEN [k \in DOMAIN data |-> data[k].id] ELSE <<>>]

CRMInit ==
    /\ w = WrapperIdle
    /\ access_token = 0
    /\ server_token = 1
    /\ crm \in CRMStates
    /\ call = CallIdle
    /\ pm = NoVal
    /\ outbox = <<>>
    /\ log = <<>>
    /\ AuxIdle

\* ZohoCRMService.__init__ reaches `self.access_token = self._get_access_token()`
Construct ==
    /\ call.pc = "idle"
    /\ access_token = 0
    /\ call' = [CallIdle EXCEPT !.op = "_get_access_token", !.pc = "running"]
    /\ w' = WrapperInit(DecoratorMaxRetries, DecoratorRetryDelay,
                        DecoratorBackoffFactor)
    /\ UNCHANGED aux
    /\ UNCHANGED <<access_token, server_token, crm, pm, outbox, log>>

\* a caller in main.py calls a method of the constructed service
BeginCall ==
    /\ call.pc # "running"
    /\ access_token # 0
    /\ call.n < MaxCalls
    /\ \E op \in (Decorated \cup Undecorated) \ {"_get_access_token"} :
       \E args \in CallArgs(op, crm) :
          /\ call' = [CallIdle EXCEPT !.op = op, !.args = args,
                                      !.pc = "running", !.n = call.n + 1]
          /\ w' = IF op \in Decorated
                  THEN WrapperInit(DecoratorMaxRetries, DecoratorRetryDelay,
                                   DecoratorBackoffFactor)
                  ELSE WrapperIdle
    /\ UNCHANGED aux
    /\ UNCHANGED <<access_token, server_token, crm, pm, outbox, log>>

\* the token endpoint needs no bearer token; the API accepts only the
\* token the CRM currently honours
TokenOk(op, held, honoured) == op = "_get_access_token" \/ held = honoured

\* wrapper() invokes the decorated method once
InvokeDecorated ==
    /\ call.pc = "running"
    /\ call.op \in Decorated
    /\ \E http \in HttpOutcomes(call.op,
                               TokenOk(call.op, access_token, server_token)) :
       \E data \in SearchData(crm, call.args.email) :
          LET res == Invoke(call.op, call.args, http, data, crm, server_token)
              a == WrapperAttempt(w, res.r)
          IN  /\ w' = a
              /\ crm' = res.crm
              /\ call' = [call EXCEPT
                            !.attempts = Append(@, Attempt(call.op, access_token, http,
                                                          data)),
                            !.pc = a.pc, !.ret = a.ret, !.exc = a.exc]
              /\ access_token' =
                    IF call.op = "_get_access_token" /\ a.pc = "returned"
                    THEN a.ret.token ELSE access_token
    /\ UNCHANGED aux
    /\ UNCHANGED <<server_token, pm, outbox, log>>

\* an undecorated method runs once; what it raises reaches its caller
InvokeUndecorated ==
    /\ call.pc = "running"
    /\ call.op \in Undecorated
    /\ \E http \in HttpOutcomes(call.op,
                               TokenOk(call.op, access_token, server_token)) :
          LET res == Invoke(call.op, call.args, http, <<>>, crm, server_token)
          IN  /\ crm' = res.crm
              /\ call' = [call EXCEPT
                            !.attempts = Append(@, Attempt(call.op, access_token, http,
                                                          <<>>)),
                            !.pc = IF res.r.kind = "return" THEN "returned"
                                   ELSE "raised",
                            !.ret = IF res.r.kind = "return" THEN res.r.val
                                    ELSE NoVal,
                            !.exc = IF res.r.kind = "return" THEN NoVal
                                    ELSE res.r.val]
    /\ UNCHANGED aux
    /\ UNCHANGED <<w, access_token, server_token, pm, outbox, log>>

\* the access token the service holds expires at the CRM: from then on the
\* CRM honours only a token issued later
TokenExpires ==
    /\ access_token = server_token
    /\ server_token' = server_token + 1
    /\ UNCHANGED aux
    /\ UNCHANGED <<w, access_token, crm, call, pm, outbox, log>>

CRMNext ==
    \/ Construct
    \/ BeginCall
    \/ InvokeDecorated
    \/ InvokeUndecorated
    \/ TokenExpires

SpecCRM == CRMInit /\ [][CRMNext]_vars

CallEnded == call.pc \in {"returned", "raised"}

LastAttempt == call.attempts[Len(call.attempts)]

\* C3: after a 401 the token is refreshed and the next attempt of the same
\* call never sends the rejected token again.
C3_RefreshOn401 ==
    \A i \in 1..(Len(call.attempts) - 1) :
        call.attempts[i].status_code = 401
            => call.attempts[i + 1].token # call.attempts[i].token

\* C4: every remote CRM operation is retried on a retryable failure up to
\* max_retries attempts and then propagates the final failure.
C4_EveryOperationRetried ==
    (CallEnded /\ LastAttempt.failed)
        => /\ call.pc = "raised"
           /\ Len(call.attempts) = DecoratorMaxRetries

\* C8: fetch_zoho_record_by_email returns None, and does not raise, when no
\* record matches the email.
C8_ZeroMatchesNotFound ==
    (/\ call.op = "fetch_zoho_record_by_email"
     /\ CallEnded
     /\ Matches(crm, call.args.email) = {})
        => call.pc = "returned" /\ call.ret = NoVal

C8_Witness ==
    /\ call.op = "fetch_zoho_record_by_email"
    /\ call.pc = "returned"
    /\ Matches(crm, call.args.email) = {}
    /\ LastAttempt.status_code = 200
    /\ Len(crm) > 0

\* C9 as stated: more than one matching record gives None; a record id is
\* returned only when exactly one record matches.
C9_MultipleMatchesNotFound ==
    (call.op = "fetch_zoho_record_by_email" /\ CallEnded)
        => /\ Cardinality(Matches(crm, call.args.email)) > 1
                => call.ret = NoVal
           /\ call.ret # NoVal
                => Cardinality(Matches(crm, call.args.email)) = 1

\* C9 amended: an answered search with one or more matches returns the id
\* and follow-up count of the first record listed; None is returned only
\* for zero matches or a failed request.
C9_FirstListedMatchReturned ==
    (call.op = "fetch_zoho_record_by_email" /\ CallEnded)
        => /\ call.pc = "returned"
           /\ (~LastAttempt.failed /\ Matches(crm, call.args.email) # {})
                => /\ call.ret.type = "tuple"
                   /\ call.ret.record_id = LastAttempt.listed[1]
                   /\ call.ret.record_id \in Matches(crm, call.args.email)
                   /\ call.ret.followup_count =
                        DictGet(crm[call.ret.record_id], "Followup_Count",
                                SomeInt(0))
           /\ call.ret = NoVal
                => LastAttempt.failed \/ Matches(crm, call.args.email) = {}

C9_Witness ==
    /\ call.op = "fetch_zoho_record_by_email"
    /\ call.pc = "returned"
    /\ Cardinality(Matches(crm, call.args.email)) = 2
    /\ call.ret.type = "tuple"
    /\ call.ret.record_id = 2

\* ------------------------------------------------------------------------
\* Python string operations on token sequences
\* ------------------------------------------------------------------------
Range(s) == {s[i] : i \in DOMAIN s}

\* str.startswith(prefix)
StartsWith(s, prefix) ==
    Len(s) >= Len(prefix) /\ SubSeq(s, 1, Len(prefix)) = prefix

\* str.find(sep) from position i on; 0 when sep does not occur
RECURSIVE Find(_, _, _)
Find(s, sep, i) ==
    IF i + Len(sep) - 1 > Len(s) THEN 0
    ELSE IF SubSeq(s, i, i + Len(sep) - 1) = sep THEN i
    ELSE Find(s, sep, i + 1)

\* str.split(sep)
RECURSIVE Split(_, _)
Split(s, sep) ==
    LET i == Find(s, sep, 1)
    IN  IF i = 0 THEN <<s>>
        ELSE <<SubSeq(s, 1, i - 1)>>
                \o Split(SubSeq(s, i + Len(sep), Len(s)), sep)

\* sep.join(parts)
RECURSIVE Join(_, _)
Join(parts, sep) ==
    IF Len(parts) = 0 THEN <<>>
    ELSE IF Len(parts) = 1 THEN parts[1]
    ELSE parts[1] \o sep \o Join(Tail(parts), sep)

Whitespace == {" ", "\n"}

\* str.lstrip(), str.rstrip(), str.strip()
RECURSIVE LStrip(_)
LStrip(s) ==
    IF Len(s) > 0 /\ s[1] \in Whitespace THEN LStrip(Tail(s)) ELSE s

RECURSIVE RStrip(_)
RStrip(s) ==
    IF Len(s) > 0 /\ s[Len(s)] \in Whitespace
    THEN RStrip(SubSeq(s, 1, Len(s) - 1)) ELSE s

Strip(s) == LStrip(RStrip(s))

\* ------------------------------------------------------------------------
\* AssistantTester.ai_assistant (ai_processor.py:17-71)
\* ------------------------------------------------------------------------
ReplyAlphabet ==
    {"STATUS:", " ", "\n", "FOLLOWUP", "followup", "INTERESSIERT", "Danke"}

TextsUpTo(n) == UNION {[1..k -> ReplyAlphabet] : k \in 0..n}

\* replies longer than MaxLen: an acknowledgement line followed by a status
\* line
LongReplies ==
    {<<"Danke", "\n", "STATUS:", " ", t>> :
        t \in {"INTERESSIERT", "FOLLOWUP"}}

\* what the assistant API does during one call of ai_assistant
AssistantOutcomes ==
    {[kind |-> "reply", text |-> t] : t \in TextsUpTo(MaxLen) \cup LongReplies}
    \cup {[kind |-> "exception", text |-> t] : t \in TextsUpTo(MaxMsgLen)}
    \cup {[kind |-> "no_assistant_message", text |-> <<>>]}

\* the string ai_assistant returns
AiAssistant(outcome) ==
    CASE outcome.kind = "reply" -> outcome.text
      [] outcome.kind = "no_assistant_message" ->
            <<"No", " ", "response", " ", "from", " ", "assistant">>
      [] outcome.kind = "exception" -> <<"Error:", " ">> \o outcome.text

\* ------------------------------------------------------------------------
\* process_monitored_emails, the body of `for email_data in new_emails`
\* (main.py:67-109)
\* ------------------------------------------------------------------------
IsStatusLineTrimmed(line) == StartsWith(LStrip(line), <<"STATUS:">>)

\* `not line.startswith("STATUS:")` negated
IsStatusLine(line) == StartsWith(line, <<"STATUS:">>)

\* main.py:76-78: the reply without its status lines
CleanedBody(ai_response) ==
    Join(SelectSeq(Split(ai_response, <<"\n">>),
                   LAMBDA line : ~IsStatusLine(line)),
         <<"\n">>)

\* main.py:79: ai_response.split("STATUS: ")[1] raises IndexError when the
\* reply does not contain "STATUS: "
HasStatusMarker(ai_response) ==
    Len(Split(ai_response, <<"STATUS:", " ">>)) >= 2

RawStatus(ai_response) ==
    Strip(Split(Split(ai_response, <<"STATUS:", " ">>)[2], <<"\n">>)[1])

\* main.py:80-81
MapStatus(status_line) ==
    IF status_line = <<"FOLLOWUP">> THEN <<"Follow Up">> ELSE status_line

\* main.py:84
SenderEmail(sender) ==
    IF "<" \in Range(sender) /\ ">" \in Range(sender)
    THEN Split(Split(sender, <<"<">>)[2], <<">">>)[1]
    ELSE sender

Senders ==
    {<<"Lead", " ", "<", "lead@example.com", ">">>, <<"other@example.com">>}

\* A decorated method run to its end by wrapper(): https[k] is the exchange
\* of the k-th request.
RECURSIVE RunDecorated(_, _, _, _, _, _, _)
RunDecorated(a, op, args, https, data, c, issued) ==
    IF a.pc # "running" THEN [a |-> a, crm |-> c]
    ELSE LET res == Invoke(op, args, https[Len(Calls(a.trace)) + 1], data, c,
                           issued)
         IN  RunDecorated(WrapperAttempt(a, res.r), op, args, https, data,
                          res.crm, issued)

DecoratedCall(op, args, https, data, c, issued) ==
    RunDecorated(WrapperInit(DecoratorMaxRetries, DecoratorRetryDelay,
                             DecoratorBackoffFactor),
                 op, args, https, data, c, issued)

PmStart(sender) ==
    [pc |-> "ai", sender |-> sender, ai_failed |-> FALSE,
     ai_response |-> <<>>, body |-> <<>>, status_line |-> <<>>,
     sender_email |-> <<>>, send_called |-> FALSE, record_id |-> 0,
     patched |-> FALSE, exc |-> ""]

Init ==
    /\ w = WrapperIdle
    /\ access_token = 1
    /\ server_token = 1
    /\ crm = <<[id |-> 1, Email |-> <<"lead@example.com">>,
                make_com_Status |-> <<>>, mailSent |-> <<>>,
                Followup_Count |-> NoneInt]>>
    /\ call = CallIdle
    /\ \E sender \in Senders : pm = PmStart(sender)
    /\ outbox = <<>>
    /\ log = <<>>
    /\ AuxIdle

\* main.py:72 `ai_response = claude_processor.ai_assistant(email_data)`
Classify ==
    /\ pm.pc = "ai"
    /\ \E outcome \in AssistantOutcomes :
          pm' = [pm EXCEPT !.pc = "extract",
                           !.ai_failed = outcome.kind # "reply",
                           !.ai_response = AiAssistant(outcome)]
    /\ UNCHANGED aux
    /\ UNCHANGED <<w, access_token, server_token, crm, call, outbox, log>>

\* main.py:76-85; an IndexError reaches the handler at main.py:107-109
ExtractStatus ==
    /\ pm.pc = "extract"
    /\ IF HasStatusMarker(pm.ai_response)
       THEN /\ pm' = [pm EXCEPT
                        !.pc = "send",
                        !.body = CleanedBody(pm.ai_response),
                        !.status_line = MapStatus(RawStatus(pm.ai_response)),
                        !.sender_email = SenderEmail(pm.sender)]
            /\ log' = log
       ELSE /\ pm' = [pm EXCEPT !.pc = "done",
                                !.body = CleanedBody(pm.ai_response),
                                !.exc = "IndexError"]
            /\ log' = Append(log, "Error processing individual email")
    /\ UNCHANGED aux
    /\ UNCHANGED <<w, access_token, server_token, crm, call, outbox>>

\* main.py:87-92 with EmailHandler.send_status_email
SendStatusEmail ==
    /\ pm.pc = "send"
    /\ \E success \in BOOLEAN :
          /\ outbox' = IF success
                       THEN Append(outbox, [to |-> pm.sender_email,
                                            body |-> pm.body])
                       ELSE outbox
          /\ log' = Append(log, IF success THEN "Successfully sent email"
                                ELSE "Failed to send email")
    /\ pm' = [pm EXCEPT !.pc = "lookup", !.send_called = TRUE]
    /\ UNCHANGED aux
    /\ UNCHANGED <<w, access_token, server_token, crm, call>>

\* main.py:96-101
LookupRecord ==
    /\ pm.pc = "lookup"
    /\ \E https \in [1..DecoratorMaxRetries ->
                        HttpOutcomes("fetch_zoho_record_by_email",
                                     TokenOk("fetch_zoho_record_by_email",
                                             access_token, server_token))] :
       \E found \in SearchData(crm, pm.sender_email) :
          LET data == DecoratedCall("fetch_zoho_record_by_email",
                                    [NoArgs EXCEPT !.email = pm.sender_email],
                                    https, found, crm, server_token).a.ret
          IN  IF data = NoVal
              THEN /\ pm' = [pm EXCEPT !.pc = "done"]
                   /\ log' = Append(log, "No Zoho record found")
              ELSE /\ pm' = [pm EXCEPT !.pc = "update",
                                       !.record_id = data.record_id]
                   /\ log' = log
    /\ UNCHANGED aux
    /\ UNCHANGED <<w, access_token, server_token, crm, call, outbox>>

\* main.py:102-105; a propagated failure reaches the handler at 107-109
UpdateEntryStatus ==
    /\ pm.pc = "update"
    /\ \E https \in [1..DecoratorMaxRetries ->
                        HttpOutcomes("update_entry_status",
                                     TokenOk("update_entry_status",
                                             access_token, server_token))] :
          LET res == DecoratedCall("update_entry_status",
                                   [NoArgs EXCEPT !.entry_id = pm.record_id,
                                                  !.value = pm.status_line],
                                   https, <<>>, crm, server_token)
          IN  /\ crm' = res.crm
              /\ IF res.a.pc = "raised"
                 THEN /\ pm' = [pm EXCEPT !.pc = "done", !.exc = res.a.exc.type]
                      /\ log' = Append(log, "Error processing individual email")
                 ELSE /\ pm' = [pm EXCEPT !.pc = "done", !.patched = TRUE]
                      /\ log' = log
    /\ UNCHANGED aux
    /\ UNCHANGED <<w, access_token, server_token, call, outbox>>

Next ==
    \/ Classify
    \/ ExtractStatus
    \/ SendStatusEmail
    \/ LookupRecord
    \/ UpdateEntryStatus
    \/ TokenExpires

Spec == Init /\ [][Next]_vars

\* ------------------------------------------------------------------------
\* The status-extraction contract as specified
\* ------------------------------------------------------------------------
DefaultStatus == <<"received">>

CRMStatuses ==
    {<<"Follow Up">>, <<"Interessiert">>, <<"Uninteressiert">>, DefaultStatus}

UpperToken(t) == IF t = "followup" THEN "FOLLOWUP" ELSE t

Upper(s) == [i \in DOMAIN s |-> UpperToken(s[i])]

TokenTable(token) ==
    CASE token = <<"FOLLOWUP">> -> <<"Follow Up">>
      [] token = <<"INTERESSIERT">> -> <<"Interessiert">>
      [] token = <<"UNINTERESSIERT">> -> <<"Uninteressiert">>
      [] OTHER -> DefaultStatus

StatusLinesOf(text) ==
    SelectSeq(Split(text, <<"\n">>), IsStatusLineTrimmed)

OtherLinesOf(text) ==
    SelectSeq(Split(text, <<"\n">>), LAMBDA line : ~IsStatusLineTrimmed(line))

StatusTokenOf(line) == Upper(Strip(Tail(LStrip(line))))

Extracted == pm.pc \notin {"ai", "extract"}

\* C5: a reply with zero status lines passes the extraction step without a
\* failure, cleaned reply = the reply unchanged, status = the default.
C5_NoStatusLineDefaults ==
    (Extracted /\ Len(StatusLinesOf(pm.ai_response)) = 0)
        => /\ pm.exc # "IndexError"
           /\ pm.body = pm.ai_response
           /\ pm.status_line = DefaultStatus

\* C6: a reply with exactly one status line loses that line, keeps every
\* other line in order, and gets the CRM status its token maps to, case
\* ignored.
C6_SingleStatusLineMapped ==
    (Extracted /\ Len(StatusLinesOf(pm.ai_response)) = 1)
        => /\ pm.exc # "IndexError"
           /\ pm.body = Join(OtherLinesOf(pm.ai_response), <<"\n">>)
           /\ pm.status_line =
                 TokenTable(StatusTokenOf(StatusLinesOf(pm.ai_response)[1]))

\* C7: whatever the raw token, the status written to the CRM is one of the
\* fixed CRM statuses.
C7_WrittenStatusInFixedSet ==
    pm.patched => crm[pm.record_id].make_com_Status \in CRMStatuses

\* C10: when the assistant call failed, the surrogate text ai_assistant
\* returned is sent verbatim as the reply to the original sender.
C10_SurrogateSentVerbatim ==
    (pm.ai_failed /\ pm.pc = "done")
        => /\ pm.send_called
           /\ pm.body = pm.ai_response
           /\ pm.sender_email = SenderEmail(pm.sender)

\* C14: for the reply "Danke\nSTATUS: INTERESSIERT" from a sender whose
\* address matches a CRM record, the mail that is sent carries exactly the
\* acknowledgement to the sender's address, and the patch that is applied
\* sets the matched record's status to 'Interessiert'.
C14_InteressiertEndToEnd ==
    (/\ pm.pc = "done"
     /\ pm.ai_response = <<"Danke", "\n", "STATUS:", " ", "INTERESSIERT">>
     /\ pm.sender_email = <<"lead@example.com">>)
        => /\ \A i \in 1..Len(outbox) :
                 outbox[i] = [to |-> <<"lead@example.com">>,
                              body |-> <<"Danke">>]
           /\ pm.patched =>
                 /\ crm[pm.record_id].Email = <<"lead@example.com">>
                 /\ crm[pm.record_id].make_com_Status = <<"Interessiert">>

\* ------------------------------------------------------------------------
\* SpecAI: ai_assistant step by step (ai_processor.py:28-71)
\* ------------------------------------------------------------------------
TerminalStatuses == {"completed", "failed", "cancelled", "expired"}

\* the messages of the thread as messages.list returns them
ThreadMessages ==
    UNION {[1..k -> {[role |-> r, text |-> t] :
                        r \in {"user", "assistant"}, t \in TextsUpTo(1)}] :
              k \in 0..MaxMessages}

\* polls counts the runs.retrieve calls made so far
AiStart ==
    [pc |-> "thread", status |-> "", server |-> "", polls |-> 0, ret |-> <<>>]

AIInit ==
    /\ w = WrapperIdle
    /\ access_token = 0
    /\ server_token = 0
    /\ crm = <<>>
    /\ call = CallIdle
    /\ pm = NoVal
    /\ outbox = <<>>
    /\ log = <<>>
    /\ ai = AiStart
    /\ imap = NoVal
    /\ pq = NoVal
    /\ fu = NoVal
    /\ sched = NoVal

\* `except Exception as e: return f"Error: {str(e)}"`
AiRaised(msg) ==
    [ai EXCEPT !.pc = "returned",
               !.ret = AiAssistant([kind |-> "exception", text |-> msg])]

AiUnchanged ==
    UNCHANGED <<w, access_token, server_token, crm, call, pm, outbox, log,
                imap, pq, fu, sched>>

\* ai_processor.py:36 threads.create()
CreateThread ==
    /\ ai.pc = "thread"
    /\ \/ ai' = [ai EXCEPT !.pc = "message"]
       \/ \E msg \in TextsUpTo(MaxMsgLen) : ai' = AiRaised(msg)
    /\ AiUnchanged

\* ai_processor.py:39-43 messages.create(...)
CreateMessage ==
    /\ ai.pc = "message"
    /\ \/ ai' = [ai EXCEPT !.pc = "run"]
       \/ \E msg \in TextsUpTo(MaxMsgLen) : ai' = AiRaised(msg)
    /\ AiUnchanged

\* ai_processor.py:46-49 runs.create(...)
CreateRun ==
    /\ ai.pc = "run"
    /\ \/ ai' = [ai EXCEPT !.pc = "poll", !.status = "queued",
                           !.server = "queued"]
       \/ \E msg \in TextsUpTo(MaxMsgLen) : ai' = AiRaised(msg)
    /\ AiUnchanged

\* the run progresses at the assistant API
RunAdvances ==
    /\ ai.pc = "poll"
    /\ \/ /\ ai.server = "queued"
          /\ \E s \in {"in_progress", "cancelled", "expired"} :
                ai' = [ai EXCEPT !.server = s]
       \/ /\ ai.server = "in_progress"
          /\ \E s \in TerminalStatuses : ai' = [ai EXCEPT !.server = s]
    /\ AiUnchanged

\* `while run.status != "completed":`
KeepsPolling(status) == status # "completed"

\* ai_processor.py:52-56, one turn of the loop: runs.retrieve(...)
PollRun ==
    /\ ai.pc = "poll"
    /\ KeepsPolling(ai.status)
    /\ ai.polls < MaxPolls
    /\ \/ ai' = [ai EXCEPT !.status = ai.server, !.polls = @ + 1]
       \/ \E msg \in TextsUpTo(MaxMsgLen) :
             ai' = [AiRaised(msg) EXCEPT !.polls = @ + 1]
    /\ AiUnchanged

\* ai_processor.py:64-68: the first message of role assistant, if any
FirstAssistantMessage(data) ==
    LET found == SelectSeq(data, LAMBDA m : m.role = "assistant")
    IN  IF Len(found) > 0
        THEN AiAssistant([kind |-> "reply", text |-> found[1].text])
        ELSE AiAssistant([kind |-> "no_assistant_message", text |-> <<>>])

\* ai_processor.py:59-68 once the loop is left
ListMessages ==
    /\ ai.pc = "poll"
    /\ ~KeepsPolling(ai.status)
    /\ \/ \E data \in ThreadMessages :
             ai' = [ai EXCEPT !.pc = "returned",
                              !.ret = FirstAssistantMessage(data)]
       \/ \E msg \in TextsUpTo(MaxMsgLen) : ai' = AiRaised(msg)
    /\ AiUnchanged

AINext ==
    \/ CreateThread
    \/ CreateMessage
    \/ CreateRun
    \/ RunAdvances
    \/ PollRun
    \/ ListMessages

SpecAI == AIInit /\ [][AINext]_vars

\* C11: the polling loop ends as soon as a terminal run status (completed,
\* failed, cancelled, expired) has been observed: no further turn of the
\* loop is taken from such a state.
C11_PollingEndsOnTerminal ==
    [][(ai.pc = "poll" /\ ai.status \in TerminalStatuses)
          => ai'.pc # "poll"]_vars

\* ------------------------------------------------------------------------
\* SpecMonitor: IMAPMonitor.monitor_emails (email_handler.py:124-164)
\* ------------------------------------------------------------------------
\* the message numbers of the selected mailbox
MailNums == 1..MaxMails

RECURSIVE Ascending(_)
\* search_data[0].split(): the numbers of the unseen messages, ascending
Ascending(S) ==
    IF S = {} THEN <<>>
    ELSE LET m == CHOOSE x \in S : \A y \in S : x <= y
         IN  <<m>> \o Ascending(S \ {m})

\* seen: the messages flagged \Seen at the server; todo: the numbers still to
\* visit; new_emails: the list being built; failed: the messages whose fetch
\* or parse raised; ret: the returned list
MonitorStart(seen) ==
    [pc |-> "search", seen |-> seen, todo |-> <<>>, new_emails |-> <<>>,
     failed |-> {}, ret |-> <<>>]

MonitorInit ==
    /\ w = WrapperIdle
    /\ access_token = 0
    /\ server_token = 0
    /\ crm = <<>>
    /\ call = CallIdle
    /\ pm = NoVal
    /\ outbox = <<>>
    /\ log = <<>>
    /\ ai = NoVal
    /\ \E seen \in SUBSET MailNums : imap = MonitorStart(seen)
    /\ pq = NoVal
    /\ fu = NoVal
    /\ sched = NoVal

MonitorUnchanged ==
    UNCHANGED <<w, access_token, server_token, crm, call, pm, outbox, log,
                ai, pq, fu, sched>>

\* email_handler.py:133-137 and 159-161: select and search; an exception
\* returns the empty list
SearchUnseen ==
    /\ imap.pc = "search"
    /\ \/ imap' = [imap EXCEPT !.pc = "loop",
                               !.todo = Ascending(MailNums \ imap.seen)]
       \/ imap' = [imap EXCEPT !.pc = "returned", !.ret = <<>>]
    /\ MonitorUnchanged

\* the outcomes of the three calls of one turn of the loop. A successful
\* FETCH of RFC822 may itself set \Seen at the server (sets_seen); STORE
\* answers OK, answers NO (which imaplib returns without raising) or raises.
TurnOutcomes ==
    [fetch : {"ok", "raise"}, sets_seen : BOOLEAN, parse : {"ok", "raise"},
     store : {"ok", "no", "raise"}]

\* email_handler.py:141-155: one turn of the loop over the unseen numbers
ProcessMail ==
    /\ imap.pc = "loop"
    /\ Len(imap.todo) > 0
    /\ \E o \in TurnOutcomes :
         LET num == Head(imap.todo)
             fetched == o.fetch = "ok"
             parsed == fetched /\ o.parse = "ok"
             stored == parsed /\ o.store = "ok"
         IN  imap' = [imap EXCEPT
                 !.todo = Tail(@),
                 !.new_emails = IF parsed THEN Append(@, num) ELSE @,
                 !.failed = IF parsed THEN @ ELSE @ \cup {num},
                 !.seen = IF stored \/ (fetched /\ o.sets_seen)
                          THEN @ \cup {num} ELSE @]
    /\ MonitorUnchanged

\* email_handler.py:157 `return new_emails`
ReturnNewEmails ==
    /\ imap.pc = "loop"
    /\ Len(imap.todo) = 0
    /\ imap' = [imap EXCEPT !.pc = "returned", !.ret = imap.new_emails]
    /\ MonitorUnchanged

MonitorNext ==
    \/ SearchUnseen
    \/ ProcessMail
    \/ ReturnNewEmails

SpecMonitor == MonitorInit /\ [][MonitorNext]_vars

\* C12: when monitor_emails has returned, every returned message is flagged
\* seen in the mailbox, and no message whose fetch or parse failed is
\* returned or flagged seen.
C12_ReturnedIffMarkedSeen ==
    imap.pc = "returned" =>
        /\ \A i \in 1..Len(imap.ret) : imap.ret[i] \in imap.seen
        /\ \A m \in imap.failed :
              m \notin Range(imap.ret) /\ m \notin imap.seen

\* ------------------------------------------------------------------------
\* SpecQueue: process_email_queue over repeated triggers (main.py:165-202)
\* ------------------------------------------------------------------------
\* the address hard-coded in the criteria of get_entries_for_email_processing
QueueCriteriaEmail == <<"Developmentexpert121@gmail.com">>

FormattedTime == <<"2026-01-01T09:00:00+03:00">>

\* the three requests a decorated call may make, each with its exchange
Exchanges(op) ==
    [1..DecoratorMaxRetries -> HttpOutcomes(op, TokenOk(op, access_token,
                                                         server_token))]

\* triggers: POSTs received so far; entries, i: the list being walked and the
\* position in it; visited: the positions whose loop body has started in this
\* run; sent: the ids of the entries mailed in this run; resent: TRUE once a
\* template went to an entry whose record already carried mailSent;
\* status: the HTTP status of the last response (0 before the first)
QueueStart ==
    [pc |-> "idle", triggers |-> 0, entries |-> <<>>, i |-> 0,
     record_id |-> 0, visited |-> {}, sent |-> {}, resent |-> FALSE,
     status |-> 0]

QueueInit ==
    /\ w = WrapperIdle
    /\ access_token = 1
    /\ server_token = 1
    /\ crm \in CRMStates
    /\ call = CallIdle
    /\ pm = NoVal
    /\ outbox = <<>>
    /\ log = <<>>
    /\ ai = NoVal
    /\ imap = NoVal
    /\ pq = QueueStart
    /\ fu = NoVal
    /\ sched = NoVal

QueueUnchanged ==
    UNCHANGED <<w, access_token, server_token, call, pm, ai, imap, fu, sched>>

\* main.py:200-202: the outer handler answers 500 and the run is over
QueueFails(q) == [q EXCEPT !.pc = "idle", !.status = 500]

\* main.py:169-172: a POST arrives and the entries are fetched
QueueTrigger ==
    /\ pq.pc = "idle"
    /\ pq.triggers < MaxTriggers
    /\ \E https \in Exchanges("get_entries_for_email_processing") :
       \E found \in SearchData(crm, QueueCriteriaEmail) :
          LET a == DecoratedCall("get_entries_for_email_processing",
                                 [NoArgs EXCEPT !.email = QueueCriteriaEmail],
                                 https, found, crm, server_token).a
              q == [pq EXCEPT !.triggers = @ + 1, !.visited = {}, !.sent = {},
                              !.entries = <<>>, !.i = 0, !.record_id = 0]
          IN  /\ pq' = IF a.pc = "raised" THEN QueueFails(q)
                       ELSE [q EXCEPT !.pc = "lookup", !.entries = a.ret.data,
                                      !.i = 1]
              /\ log' = IF a.pc = "raised"
                        THEN Append(log, "Error processing email queue")
                        ELSE log
    /\ UNCHANGED <<crm, outbox>>
    /\ QueueUnchanged

\* main.py:174-182: the lookup of the entry's record; after the warning of
\* a miss the code goes on to `record_id, followup_hist = data`, which
\* raises TypeError on None
QueueLookup ==
    /\ pq.pc = "lookup"
    /\ pq.i <= Len(pq.entries)
    /\ \E https \in Exchanges("fetch_zoho_record_by_email") :
       \E found \in SearchData(crm, pq.entries[pq.i].Email) :
          LET data == DecoratedCall("fetch_zoho_record_by_email",
                                    [NoArgs EXCEPT
                                        !.email = pq.entries[pq.i].Email],
                                    https, found, crm, server_token).a.ret
              q == [pq EXCEPT !.visited = @ \cup {pq.i}]
          IN  IF data = NoVal
              THEN /\ pq' = QueueFails(q)
                   /\ log' = log \o <<"No Zoho record found",
                                      "Error processing email queue">>
              ELSE /\ pq' = [q EXCEPT !.pc = "send",
                                      !.record_id = data.record_id]
                   /\ log' = log
    /\ UNCHANGED <<crm, outbox>>
    /\ QueueUnchanged

\* main.py:183-189: which template the entry gets
TemplateOf(entry) ==
    IF /\ DictGet(entry, "Anrede", <<>>) = <<>>
       /\ DictGet(entry, "Nachname", <<>>) = <<>>
       /\ DictGet(entry, "Vorname", <<>>) = <<>>
    THEN <<"non_personalized">> ELSE <<"personalized">>

\* main.py:183-189 with send_non_personalizedtemplate_email /
\* send_personalizedtemplate_email, which raise when the SMTP send fails
QueueSend ==
    /\ pq.pc = "send"
    /\ \E success \in BOOLEAN :
          LET entry == pq.entries[pq.i]
          IN  IF success
              THEN /\ outbox' = Append(outbox, [to |-> entry.Email,
                                                body |-> TemplateOf(entry)])
                   /\ pq' = [pq EXCEPT
                                !.pc = "stamp",
                                !.sent = @ \cup {entry.id},
                                !.resent = @ \/ crm[entry.id].mailSent # <<>>]
                   /\ log' = log
              ELSE /\ outbox' = outbox
                   /\ pq' = QueueFails(pq)
                   /\ log' = Append(log, "Error processing email queue")
    /\ UNCHANGED crm
    /\ QueueUnchanged

\* main.py:190-197: update_mailsent_status(entry_id=record_id, mail_sent=...)
QueueStamp ==
    /\ pq.pc = "stamp"
    /\ \E http \in HttpOutcomes("update_mailsent_status",
                               TokenOk("update_mailsent_status", access_token,
                                       server_token)) :
          LET res == Invoke("update_mailsent_status",
                            [NoArgs EXCEPT !.entry_id = pq.record_id,
                                           !.value = FormattedTime],
                            http, <<>>, crm, server_token)
          IN  /\ crm' = res.crm
              /\ IF res.r.kind = "return"
                 THEN /\ pq' = [pq EXCEPT !.pc = "lookup", !.i = @ + 1]
                      /\ log' = log
                 ELSE /\ pq' = QueueFails(pq)
                      /\ log' = Append(log, "Error processing email queue")
    /\ outbox' = outbox
    /\ QueueUnchanged

\* main.py:199: the loop is over and the endpoint answers 200
QueueReturns ==
    /\ pq.pc = "lookup"
    /\ pq.i > Len(pq.entries)
    /\ pq' = [pq EXCEPT !.pc = "idle", !.status = 200]
    /\ UNCHANGED <<crm, outbox, log>>
    /\ QueueUnchanged

QueueNext ==
    \/ QueueTrigger
    \/ QueueLookup
    \/ QueueSend
    \/ QueueStamp
    \/ QueueReturns

SpecQueue == QueueInit /\ [][QueueNext]_vars

\* C13: when a run of a per-item loop has ended after its list was fetched,
\* the loop body has been started for every item of the list, whatever
\* lookup miss or failure an earlier item met.
C13_RemainingItemsProcessed ==
    (pq.pc = "idle" /\ pq.triggers > 0 /\ Len(pq.entries) > 0)
        => pq.visited = 1..Len(pq.entries)

\* C16: no initial template goes to a lead whose record already carries a
\* sent-timestamp, and when a run has ended without a failure every lead it
\* mailed has the sent-timestamp on its own record.
C16_InitialTemplateSentOnce ==
    /\ ~pq.resent
    /\ (pq.pc = "idle" /\ pq.status = 200)
          => \A id \in pq.sent : crm[id].mailSent # <<>>

\* ------------------------------------------------------------------------
\* SpecFollowup: process_followup (main.py:207-245)
\* ------------------------------------------------------------------------
\* the timestamps of the CRM's JSON, which are strings, and the day each
\* one names
Timestamps ==
    {"2026-01-01T09:00:00+03:00", "2026-01-03T09:00:00+03:00",
     "2026-01-07T09:00:00+03:00"}

DayOf(s) ==
    CASE s = "2026-01-01T09:00:00+03:00" -> 1
      [] s = "2026-01-03T09:00:00+03:00" -> 3
      [] s = "2026-01-07T09:00:00+03:00" -> 7

\* Python values with their types
Str(tokens) == [type |-> "str", s |-> tokens]

\* datetime.strptime(mail_sent, "%Y-%m-%dT%H:%M:%S%z")
Strptime(mail_sent) == [type |-> "datetime", day |-> DayOf(mail_sent[1])]

\* a - b: defined between two datetimes, TypeError between a str and a
\* datetime
Minus(a, b) ==
    IF a.type = "datetime" /\ b.type = "datetime"
    THEN Returns([type |-> "timedelta", days |-> a.day - b.day])
    ELSE [kind |-> "Exception", val |-> [type |-> "TypeError"]]

\* timedelta(days=5)
FollowupAgeDays == 5

\* `if folcount > 3`
FollowupCountLimit == 3

\* the leads of the Probenehmer module a follow-up scan can meet
FollowupRecords(id) ==
    {[id |-> id, Email |-> e, make_com_Status |-> <<>>, mailSent |-> ms,
      Modified_Time |-> <<mt>>, Followup_Count |-> fc] :
        e \in Emails,
        ms \in {<<>>, <<"2026-01-01T09:00:00+03:00">>},
        mt \in Timestamps \ {"2026-01-01T09:00:00+03:00"},
        fc \in {NoneInt, SomeInt(1), SomeInt(4)}}

FollowupCRMStates ==
    UNION {{c \in [1..n -> UNION {FollowupRecords(i) : i \in 1..n}] :
               \A i \in 1..n : c[i].id = i} : n \in 0..MaxRecords}

\* entries, i: the list being walked and the position in it; sent: the ids
\* of the entries a follow-up mail went to; patched: the ids whose status
\* update_status has written; io_failed: TRUE once an HTTP or SMTP exchange
\* of the run failed; status: the HTTP status of the response (0 before it)
FollowupStart ==
    [pc |-> "idle", entries |-> <<>>, i |-> 0, sent |-> {}, patched |-> {},
     io_failed |-> FALSE, status |-> 0, exc |-> ""]

FollowupInit ==
    /\ w = WrapperIdle
    /\ access_token = 1
    /\ server_token = 1
    /\ crm \in FollowupCRMStates
    /\ call = CallIdle
    /\ pm = NoVal
    /\ outbox = <<>>
    /\ log = <<>>
    /\ ai = NoVal
    /\ imap = NoVal
    /\ pq = NoVal
    /\ fu = FollowupStart
    /\ sched = NoVal

FollowupUnchanged ==
    UNCHANGED <<w, access_token, server_token, call, pm, ai, imap, pq, sched>>

\* main.py:243-245: the outer handler answers 500 and the run is over
FollowupFails(f, exc) == [f EXCEPT !.pc = "done", !.status = 500, !.exc = exc]

\* main.py:208-210: a POST arrives and the entries are fetched
FollowupTrigger ==
    /\ fu.pc = "idle"
    /\ \E https \in Exchanges("get_entries_for_email_processing") :
       \E found \in SearchData(crm, QueueCriteriaEmail) :
          LET a == DecoratedCall("get_entries_for_email_processing",
                                 [NoArgs EXCEPT !.email = QueueCriteriaEmail],
                                 https, found, crm, server_token).a
          IN  /\ fu' = IF a.pc = "raised"
                       THEN [FollowupFails(fu, a.exc.type) EXCEPT
                                !.io_failed = TRUE]
                       ELSE [fu EXCEPT !.pc = "loop", !.entries = a.ret.data,
                                       !.i = 1]
              /\ log' = IF a.pc = "raised"
                        THEN Append(log, "Error processing email queue")
                        ELSE log
    /\ UNCHANGED <<crm, outbox>>
    /\ FollowupUnchanged

\* main.py:220-239 for an entry whose time_difference was computed: the
\* state of the run and of the CRM after the rest of the loop body.
\* send_followup_email reads entry['email'], a key the entries (which carry
\* 'Email') do not have; update_mailsent_status has no parameter
\* follow_up_count.
FollowupRest(entry, time_difference, data, patch, c) ==
    IF data = NoVal
    THEN [fu |-> FollowupFails(fu, "TypeError"), crm |-> c]
    ELSE IF time_difference.days <= FollowupAgeDays
    THEN [fu |-> [fu EXCEPT !.i = @ + 1], crm |-> c]
    ELSE IF entry.Followup_Count = NoneInt
    THEN [fu |-> FollowupFails(fu, "TypeError"), crm |-> c]
    ELSE IF entry.Followup_Count[1] > FollowupCountLimit
            /\ patch.a.pc = "raised"
    THEN [fu |-> [FollowupFails(fu, patch.a.exc.type) EXCEPT
                     !.io_failed = TRUE],
          crm |-> c]
    ELSE LET limit == entry.Followup_Count[1] > FollowupCountLimit
         IN  [fu |-> [FollowupFails(fu, "KeyError") EXCEPT
                         !.patched = IF limit THEN @ \cup {data.record_id}
                                     ELSE @],
              crm |-> IF limit THEN patch.crm ELSE c]

\* main.py:211-239: one turn of the loop. modified_time is the JSON string
\* of the entry, mail_sent_dt a datetime.
FollowupEntry ==
    /\ fu.pc = "loop"
    /\ fu.i <= Len(fu.entries)
    /\ LET entry == fu.entries[fu.i]
           mail_sent == DictGet(entry, "mailSent", <<>>)
           modified_time == Str(DictGet(entry, "Modified_Time", <<>>))
       IN  IF mail_sent = <<>>
           THEN /\ fu' = [fu EXCEPT !.i = @ + 1]
                /\ UNCHANGED <<crm, log>>
           ELSE LET time_difference == Minus(modified_time,
                                             Strptime(mail_sent))
                IN  IF time_difference.kind # "return"
                    THEN /\ fu' = FollowupFails(fu, time_difference.val.type)
                         /\ crm' = crm
                         /\ log' = Append(log, "Error processing email queue")
                    ELSE \E h1 \in Exchanges("fetch_zoho_record_by_email") :
                         \E h2 \in Exchanges("update_status") :
                         \E found \in SearchData(crm, entry.Email) :
                            LET data ==
                                  DecoratedCall("fetch_zoho_record_by_email",
                                      [NoArgs EXCEPT !.email = entry.Email],
                                      h1, found, crm, server_token).a.ret
                                patch ==
                                  DecoratedCall("update_status",
                                      [NoArgs EXCEPT
                                          !.entry_id = data.record_id,
                                          !.value = <<"Uninteressiert">>],
                                      h2, <<>>, crm, server_token)
                                r == FollowupRest(entry, time_difference.val,
                                                  data, patch, crm)
                            IN  /\ fu' = r.fu
                                /\ crm' = r.crm
                                /\ log' = IF r.fu.pc = "done"
                                          THEN Append(log,
                                                 "Error processing email queue")
                                          ELSE log
    /\ outbox' = outbox
    /\ FollowupUnchanged

\* main.py:241: the loop is over and the endpoint answers 200
FollowupReturns ==
    /\ fu.pc = "loop"
    /\ fu.i > Len(fu.entries)
    /\ fu' = [fu EXCEPT !.pc = "done", !.status = 200]
    /\ UNCHANGED <<crm, outbox, log>>
    /\ FollowupUnchanged

FollowupNext ==
    \/ FollowupTrigger
    \/ FollowupEntry
    \/ FollowupReturns

SpecFollowup == FollowupInit /\ [][FollowupNext]_vars

\* a lead whose mailSent lies more than 5 days before its modified time
Due(entry) ==
    /\ entry.mailSent # <<>>
    /\ DayOf(entry.Modified_Time[1]) - DayOf(entry.mailSent[1])
          > FollowupAgeDays

\* the run has ended and none of its HTTP or SMTP exchanges failed
FollowupRunEnded == fu.pc = "done" /\ ~fu.io_failed

\* C15: when a follow-up scan has ended, a fetched lead whose mailSent is 6
\* days before its modified time and whose follow-up count is 4 has the
\* status 'Uninteressiert' and has been sent a follow-up mail.
C15_DisengagedStillFollowedUp ==
    FollowupRunEnded =>
        \A k \in 1..Len(fu.entries) :
            LET entry == fu.entries[k]
            IN  (Due(entry) /\ entry.Followup_Count = SomeInt(4))
                    => /\ crm[entry.id].make_com_Status = <<"Uninteressiert">>
                       /\ entry.id \in fu.sent

\* C17: when a follow-up scan has ended, every fetched lead that was due has
\* been sent a follow-up mail, its follow-up count is its previous count plus
\* one (1 if it was unset), and the run answered 200.
C17_FollowupCountIncremented ==
    FollowupRunEnded =>
        \A k \in 1..Len(fu.entries) :
            LET entry == fu.entries[k]
                previous == entry.Followup_Count
            IN  Due(entry)
                    => /\ entry.id \in fu.sent
                       /\ crm[entry.id].Followup_Count =
                             (IF previous = NoneInt THEN SomeInt(1)
                              ELSE SomeInt(previous[1] + 1))
                       /\ fu.status = 200

\* ------------------------------------------------------------------------
\* SpecSched: schedule_email_processing and the scheduler's cron jobs
\* (main.py:263-313)
\* ------------------------------------------------------------------------
\* `base_time = 9`
BaseTime == 9

\* `range(3)`: the jobs email_processing_1 .. email_processing_3
JobCount == 3

\* random.randint(0, 3)
MaxHourOffset == 3

\* random.randint(0, 59), of which the two ends are drawn
MaxMinute == 59

MinuteChoices == {0, MaxMinute}

\* datetime.today().weekday(): Monday is 0, Saturday 5, Sunday 6
Weekdays == 0..6

Weekend == {5, 6}

\* the cron time of a job, in minutes after midnight
MinuteOfDay(job) == job.hour * 60 + job.minute

\* main.py:274-277: the time of job i (i counted from 0) for the two random
\* draws
RandomTime(i, hour_offset, minute) ==
    [hour |-> BaseTime + hour_offset + (i * 3), minute |-> minute]

\* day: the weekday; jobs: the email_processing_* jobs the scheduler holds,
\* as a function from the job's number to its cron time; at_midnight: the
\* daily_reschedule job is due; fired: the jobs that have run today
SchedStart(day) ==
    [day |-> day, jobs |-> <<>>, at_midnight |-> FALSE, fired |-> {}]

SchedInit ==
    /\ w = WrapperIdle
    /\ access_token = 0
    /\ server_token = 0
    /\ crm = <<>>
    /\ call = CallIdle
    /\ pm = NoVal
    /\ outbox = <<>>
    /\ log = <<>>
    /\ ai = NoVal
    /\ imap = NoVal
    /\ pq = NoVal
    /\ fu = NoVal
    /\ \E day \in Weekdays : sched = SchedStart(day)

SchedUnchanged ==
    UNCHANGED <<w, access_token, server_token, crm, call, pm, outbox,
                ai, imap, pq, fu>>

\* main.py:305-313 with 263-289: the daily_reschedule job runs
\* schedule_email_processing at 00:00. On a weekend it returns before the
\* old jobs are removed; otherwise the old jobs are removed and three new
\* ones added.
ScheduleEmailProcessing ==
    /\ sched.at_midnight
    /\ IF sched.day \in Weekend
       THEN /\ sched' = [sched EXCEPT !.at_midnight = FALSE]
            /\ log' = Append(log, "Skipping email scheduling")
       ELSE /\ \E hours \in [1..JobCount -> 0..MaxHourOffset] :
               \E minutes \in [1..JobCount -> MinuteChoices] :
                  sched' = [sched EXCEPT
                      !.at_midnight = FALSE,
                      !.jobs = [i \in 1..JobCount |->
                                  RandomTime(i - 1, hours[i], minutes[i])]]
            /\ log' = log
    /\ SchedUnchanged

\* a cron job email_processing_i fires at its hour and minute, every day
EmailProcessingFires ==
    /\ ~sched.at_midnight
    /\ \E j \in DOMAIN sched.jobs \ sched.fired :
          /\ \A k \in DOMAIN sched.jobs \ sched.fired :
                MinuteOfDay(sched.jobs[j]) <= MinuteOfDay(sched.jobs[k])
          /\ sched' = [sched EXCEPT !.fired = @ \cup {j}]
    /\ log' = log
    /\ SchedUnchanged

\* the day ends once the jobs the scheduler holds have fired
DayEnds ==
    /\ ~sched.at_midnight
    /\ sched.fired = DOMAIN sched.jobs
    /\ sched' = [sched EXCEPT !.day = (@ + 1) % 7, !.at_midnight = TRUE,
                              !.fired = {}]
    /\ log' = <<>>
    /\ SchedUnchanged

SchedNext ==
    \/ ScheduleEmailProcessing
    \/ EmailProcessingFires
    \/ DayEnds

SpecSched == SchedInit /\ [][SchedNext]_vars

\* C18: the jobs the scheduler holds are ordered in time and any two
\* consecutive ones are at least 3 hours apart.
C18_ThreeHourGap ==
    \A i \in 1..(JobCount - 1) :
        (i \in DOMAIN sched.jobs /\ (i + 1) \in DOMAIN sched.jobs)
            => MinuteOfDay(sched.jobs[i + 1]) - MinuteOfDay(sched.jobs[i])
                  >= 3 * 60

\* C19: once the daily reschedule has run on a Saturday or Sunday, the
\* scheduler holds no email_processing job for that day.
C19_NoWeekendProcessing ==
    (sched # NoVal /\ sched.day \in Weekend /\ ~sched.at_midnight)
        => DOMAIN sched.jobs = {}

\* ------------------------------------------------------------------------
\* SpecRace: a process_monitored_emails job and a daily_followups job on the
\* scheduler's thread pool, working on the same lead (main.py:67-109,
\* 207-245, 294-302)
\* ------------------------------------------------------------------------
\* the lead both runs meet: its address is the sender of the inbound mail
\* and matches the criteria of the follow-up scan; its follow-up count is
\* above the limit
RaceLeads ==
    {r \in FollowupRecords(1) :
        /\ r.Email = QueueCriteriaEmail
        /\ r.Followup_Count = SomeInt(4)}

RaceInit ==
    /\ w = WrapperIdle
    /\ access_token = 1
    /\ server_token = 1
    /\ \E r \in RaceLeads : crm = <<r>>
    /\ call = CallIdle
    /\ pm = PmStart(QueueCriteriaEmail)
    /\ outbox = <<>>
    /\ log = <<>>
    /\ ai = NoVal
    /\ imap = NoVal
    /\ pq = NoVal
    /\ fu = FollowupStart
    /\ sched = NoVal

\* the steps of the two runs interleave freely
RaceNext ==
    \/ Classify
    \/ ExtractStatus
    \/ SendStatusEmail
    \/ LookupRecord
    \/ UpdateEntryStatus
    \/ FollowupTrigger
    \/ FollowupEntry
    \/ FollowupReturns

SpecRace == RaceInit /\ [][RaceNext]_vars

\* C20: when an inbound run that patched the status and a follow-up run over
\* the same due lead have both ended, the follow-up run has patched the
\* status too, and the record holds the status of one of the two patches.
C20_LastWriteWins ==
    (/\ pm.pc = "done"
     /\ pm.patched
     /\ fu.pc = "done"
     /\ ~fu.io_failed
     /\ Due(crm[1]))
        => /\ 1 \in fu.patched
           /\ crm[1].make_com_Status \in {pm.status_line, <<"Uninteressiert">>}

====
